---- MODULE Spec2Model ----
(***************************************************************************)
(* Checkout stock reservation and payment state machine of the e-commerce  *)
(* API: the stock manager (reserveStock / releaseStock / updateSoldCount), *)
(* the payment controller (checkout, stripeWebhook and its handlers), the  *)
(* order controller (cancelOrder) and the soft delete of the catalog.      *)
(*                                                                         *)
(* Store model.  Every awaited store call on one document is one atomic    *)
(* step; a handler is a sequence of such steps held in req[p].pc, so that  *)
(* concurrent requests interleave at every await.  Writes made with a      *)
(* session become visible together at commitTransaction and are discarded  *)
(* by abortTransaction.                                                    *)
(*                                                                         *)
(* Order lines.  The line's product reference is the productId of the      *)
(* validated cart line it was created from.                                *)
(***************************************************************************)
EXTENDS Integers, Sequences, FiniteSets, TLC

\* ------------------------------------------------------------------ bounds
NumItems == 2
MaxStock == 2
MaxQty == 2
NumCallers == 3
NumClients == 2
MaxOrders == 2
MaxPairQty == 1
MaxRequests == 3

Items == 1..NumItems
Callers == 1..NumCallers
Clients == 1..NumClients
Procs == 1..(IF NumCallers > NumClients THEN NumCallers ELSE NumClients)

\* ------------------------------------------------------------------ state
VARIABLES
    inStock,      \* Product.inStock per item
    soldCount,    \* Product.soldCount per item
    isDeleted,    \* Product.isDeleted per item
    isPublished,  \* Product.isPublished per item
    orders,       \* the Order collection, in creation order
    req,          \* the request each handler slot is serving, and where it is
    sessCart,     \* req.session[cartKey] of the session each slot serves
    requests,     \* number of requests received so far
    stock0        \* inStock at start (observation only)

vars == <<inStock, soldCount, isDeleted, isPublished, orders, req, sessCart,
          requests, stock0>>

catalog == <<inStock, soldCount, isDeleted, isPublished>>

\* an Order document: items, payment.status, payment.stripePaymentIntentId
\* (0 = not set), status, shipping.status, cancelReason, cancelledBy (set or
\* not)
NoOrder == [items |-> <<>>, pay |-> "none", ref |-> 0, status |-> "none",
            ship |-> "none", cancelReason |-> "none", cancelledBy |-> FALSE]

\* a handler slot: the operation, the await it stands at, and its locals
\*   items : the cart / the items argument      idx  : loop position
\*   ev, ref : event type and payment intent id  oid, snap : the loaded order
\*   pop   : per line, whether populate('items.product') found the product
\*   changed : hasChanges of validateCartPrices  res, avail : the response
\*   err   : the error the handler caught and logged
\*   sig   : whether the stripe-signature of the delivery verified
Idle == [op |-> "idle", pc |-> "idle", items |-> <<>>, idx |-> 0,
         ev |-> "none", ref |-> 0, oid |-> 0, snap |-> NoOrder, pop |-> <<>>,
         changed |-> FALSE, res |-> "none", avail |-> 0, err |-> "none",
         sig |-> FALSE]

\* the catalog the shop starts with: one unit of item 1, MaxStock of the others
InitStock(i) == IF i = 1 THEN 1 ELSE MaxStock

Init ==
    /\ inStock = [i \in Items |-> InitStock(i)]
    /\ soldCount = [i \in Items |-> 0]
    /\ isDeleted = [i \in Items |-> FALSE]
    /\ isPublished = [i \in Items |-> TRUE]
    /\ orders = <<>>
    /\ req = [p \in Procs |-> Idle]
    /\ sessCart = [p \in Procs |-> <<>>]
    /\ requests = 0
    /\ stock0 = inStock

\* ------------------------------------------------------- Product queries
\* productSchema.pre(/^find/): every find* query also requires isDeleted:false
Visible(i) == ~isDeleted[i]

\* the filter without its inStock: {$gte: quantity} condition
CanReserve_NoStockTest(stock, i, q) ==
    /\ Visible(i)
    /\ isDeleted[i] = FALSE
    /\ isPublished[i] = TRUE

\* the filter of reserveStock's findOneAndUpdate, against the stock the
\* query sees
CanReserve(stock, i, q) ==
    /\ Visible(i)
    /\ stock[i] >= q
    /\ isDeleted[i] = FALSE
    /\ isPublished[i] = TRUE

\* the error reserveStock throws after findById
ReserveError(i) ==
    IF ~Visible(i) \/ isDeleted[i] THEN "NotAvailable"
    ELSE IF ~isPublished[i] THEN "NotPublished"
    ELSE "InsufficientStock"

Line(i, q) == [product |-> i, quantity |-> q]

\* an update that writes nothing
IncAll_Skip(f, lines, sign) == f

\* ProductModel.findByIdAndUpdate(id, {$inc: {field: d}}) for every line, in
\* order; a line whose product the query does not find changes nothing
RECURSIVE IncAll(_, _, _)
IncAll(f, lines, sign) ==
    IF lines = <<>> THEN f
    ELSE LET l == Head(lines) IN
         IncAll(IF Visible(l.product)
                THEN [f EXCEPT ![l.product] = @ + sign * l.quantity]
                ELSE f,
                Tail(lines), sign)

\* total quantity of item i on a sequence of lines
RECURSIVE QtyOf(_, _)
QtyOf(lines, i) ==
    IF lines = <<>> THEN 0
    ELSE (IF Head(lines).product = i THEN Head(lines).quantity ELSE 0)
         + QtyOf(Tail(lines), i)

\* the response is sent: the handler's locals are gone, what it served stays
Finish(p, r) ==
    [Idle EXCEPT !.op = req[p].op, !.pc = "done", !.res = r,
                 !.items = req[p].items, !.ev = req[p].ev, !.ref = req[p].ref,
                 !.oid = req[p].oid, !.sig = req[p].sig]

\* the handler caught error e and answers r
Fail(p, r, e) == [Finish(p, r) EXCEPT !.err = e]

\* ------------------------------------------------------------ stock ledger
\* a caller invokes reserveStock(items) without a session
ReserveCall(p, i, q) ==
    /\ req[p].op = "idle"
    /\ req' = [req EXCEPT ![p] = [Idle EXCEPT !.op = "reserve",
                 !.pc = "update", !.items = <<Line(i, q)>>, !.idx = 1]]
    /\ UNCHANGED <<catalog, orders, sessCart, requests, stock0>>

\* one iteration of the loop: the conditional findOneAndUpdate
ReserveUpdate(p) ==
    /\ req[p].op = "reserve" /\ req[p].pc = "update"
    /\ LET l == req[p].items[req[p].idx] IN
       IF CanReserve(inStock, l.product, l.quantity)
       THEN /\ inStock' = [inStock EXCEPT ![l.product] = @ - l.quantity]
            /\ req' = [req EXCEPT ![p] =
                 IF req[p].idx = Len(req[p].items)
                 THEN Finish(p, "ok")
                 ELSE [@ EXCEPT !.idx = @ + 1]]
       ELSE /\ inStock' = inStock
            /\ req' = [req EXCEPT ![p].pc = "diagnose"]
    /\ UNCHANGED <<soldCount, isDeleted, isPublished, orders, sessCart,
                   requests, stock0>>

\* if (!result): findById, then the error that is thrown
ReserveDiagnose(p) ==
    /\ req[p].op = "reserve" /\ req[p].pc = "diagnose"
    /\ LET l == req[p].items[req[p].idx] IN
       req' = [req EXCEPT ![p] =
                 [Finish(p, ReserveError(l.product)) EXCEPT
                    !.avail = IF Visible(l.product) THEN inStock[l.product]
                              ELSE 0]]
    /\ UNCHANGED <<catalog, orders, sessCart, requests, stock0>>

\* the stock ledger alone, on any stock
InitLedger ==
    /\ inStock \in [Items -> 0..MaxStock]
    /\ soldCount = [i \in Items |-> 0]
    /\ isDeleted = [i \in Items |-> FALSE]
    /\ isPublished = [i \in Items |-> TRUE]
    /\ orders = <<>>
    /\ req = [p \in Procs |-> Idle]
    /\ sessCart = [p \in Procs |-> <<>>]
    /\ requests = 0
    /\ stock0 = inStock

NextLedger ==
    \E p \in Callers :
        \/ \E i \in Items, q \in 1..MaxQty : ReserveCall(p, i, q)
        \/ ReserveUpdate(p)
        \/ ReserveDiagnose(p)

SpecLedger == InitLedger /\ [][NextLedger]_vars

\* ------------------------------------------------------------------ carts
\* salePrice (0 = not set) and regularPrice of the catalog
RegularPrice(i) == 2
SalePrice(i) == IF i = 1 THEN 1 ELSE 0
CurrentPrice(i) == IF SalePrice(i) # 0 THEN SalePrice(i) ELSE RegularPrice(i)

Prices == {1, 2}
CartLines == [product : Items, quantity : 1..MaxQty, price : Prices]
PairLines == {l \in CartLines : l.quantity <= MaxPairQty}
Carts == {<<l>> : l \in CartLines}
         \cup {c \in {<<l1, l2>> : l1 \in PairLines, l2 \in PairLines} :
                    c[1].product # c[2].product}

\* validatedCart.map(item => ({productId, quantity}))
RECURSIVE OrderLines(_)
OrderLines(cart) ==
    IF cart = <<>> THEN <<>>
    ELSE <<Line(Head(cart).product, Head(cart).quantity)>>
         \o OrderLines(Tail(cart))

\* a finished request leaves its slot, which then serves another session
Return(p) ==
    /\ req[p].pc = "done"
    /\ req' = [req EXCEPT ![p] = Idle]
    /\ sessCart' = [sessCart EXCEPT ![p] = <<>>]
    /\ UNCHANGED <<catalog, orders, requests, stock0>>

\* --------------------------------------------------------------- checkout
InCheckout(q) ==
    req[q].op = "checkout" /\ req[q].pc \in {"validate", "save", "tx"}

\* checkout of a session whose cart is c, up to validateCartPrices: empty
\* cart, address checks
CheckoutStart(p, c, addr) ==
    /\ req[p].op = "idle"
    /\ Len(orders) + Cardinality({q \in Clients : InCheckout(q)}) < MaxOrders
    /\ requests < MaxRequests
    /\ requests' = requests + 1
    /\ sessCart' = [sessCart EXCEPT ![p] = c]
    /\ req' = [req EXCEPT ![p] =
         IF c = <<>>
         THEN [Idle EXCEPT !.op = "checkout", !.pc = "done", !.res = "CartEmpty"]
         ELSE IF addr = "missing"
         THEN [Idle EXCEPT !.op = "checkout", !.pc = "done",
                           !.res = "MissingFields"]
         ELSE IF addr = "invalid"
         THEN [Idle EXCEPT !.op = "checkout", !.pc = "done",
                           !.res = "InvalidAddress"]
         ELSE [Idle EXCEPT !.op = "checkout", !.pc = "validate",
                           !.items = c, !.idx = 1]]
    /\ UNCHANGED <<catalog, orders, stock0>>

\* a comparison that never sees a difference
PriceDiffers_Never(l) == FALSE

\* item.price !== currentPrice
PriceDiffers(l) == l.price # CurrentPrice(l.product)

\* one iteration of validateCartPrices, and the hasChanges test after the
\* last one; reserve says whether the checkout goes on in a transaction
CheckoutValidate(p, reserve) ==
    /\ req[p].op = "checkout" /\ req[p].pc = "validate"
    /\ LET l == req[p].items[req[p].idx]
           i == l.product
           ch == req[p].changed \/ PriceDiffers(l)
       IN req' = [req EXCEPT ![p] =
            IF ~Visible(i) \/ isDeleted[i] \/ ~isPublished[i]
            THEN Finish(p, "ProductNotFound")
            ELSE IF inStock[i] < l.quantity
            THEN [Finish(p, "OutOfStock") EXCEPT !.avail = inStock[i]]
            ELSE IF req[p].idx < Len(req[p].items)
            THEN [@ EXCEPT !.idx = @ + 1, !.changed = ch]
            ELSE IF ch
            THEN [Finish(p, "PriceChanged") EXCEPT !.changed = TRUE]
            ELSE [@ EXCEPT !.pc = IF reserve THEN "tx" ELSE "save",
                           !.idx = 0]]
    /\ UNCHANGED <<catalog, orders, sessCart, requests, stock0>>

\* new Order({... payment: {status: 'pending'}}) with the schema defaults
NewOrder(cart) ==
    [items |-> OrderLines(cart), pay |-> "pending", ref |-> 0,
     status |-> "pending", ship |-> "pending", cancelReason |-> "none",
     cancelledBy |-> FALSE]

\* await order.save(): the order is created, or the store rejects the write
CheckoutSave(p) ==
    /\ req[p].op = "checkout" /\ req[p].pc = "save"
    /\ \/ /\ orders' = Append(orders, NewOrder(req[p].items))
          /\ req' = [req EXCEPT ![p] = [@ EXCEPT !.pc = "intent",
                                                 !.oid = Len(orders) + 1]]
       \/ /\ orders' = orders
          /\ req' = [req EXCEPT ![p] = Fail(p, "ServerError", "StoreError")]
    /\ UNCHANGED <<catalog, sessCart, requests, stock0>>

\* await stripe.paymentIntents.create(): an intent, or an error
CheckoutIntent(p) ==
    /\ req[p].op = "checkout" /\ req[p].pc = "intent"
    /\ \/ req' = [req EXCEPT ![p].pc = "saveRef"]
       \/ req' = [req EXCEPT ![p] = Fail(p, "ServerError", "StripeError")]
    /\ UNCHANGED <<catalog, orders, sessCart, requests, stock0>>

\* a checkout that empties the cart whether or not the save succeeded
CartAfter_Always(cart, saved) == <<>>

\* req.session[cartKey] = [] stands after the await of the save, so it runs
\* only if the save did not throw
CartAfter(cart, saved) == IF saved THEN <<>> ELSE cart

\* order.payment.stripePaymentIntentId = paymentIntent.id; await order.save();
\* req.session[cartKey] = []; sendSuccess
CheckoutSaveRef(p) ==
    /\ req[p].op = "checkout" /\ req[p].pc = "saveRef"
    /\ \/ /\ orders' = [orders EXCEPT ![req[p].oid].ref = req[p].oid]
          /\ sessCart' = [sessCart EXCEPT ![p] = CartAfter(@, TRUE)]
          /\ req' = [req EXCEPT ![p] = Finish(p, "ok")]
       \/ /\ orders' = orders
          /\ sessCart' = [sessCart EXCEPT ![p] = CartAfter(@, FALSE)]
          /\ req' = [req EXCEPT ![p] = Fail(p, "ServerError", "StoreError")]
    /\ UNCHANGED <<catalog, requests, stock0>>

\* ------------------------------------------ checkout in a transaction
\* reserveStock(items, session): the loop from line k on, on the stock the
\* session sees; at and failed are the line whose conditional update matched
\* nothing
RECURSIVE ReserveFrom(_, _, _)
ReserveFrom(stock, lines, k) ==
    IF k > Len(lines)
    THEN [ok |-> TRUE, stock |-> stock, at |-> 0, failed |-> Line(0, 0)]
    ELSE LET l == lines[k] IN
         IF CanReserve(stock, l.product, l.quantity)
         THEN ReserveFrom([stock EXCEPT ![l.product] = @ - l.quantity],
                          lines, k + 1)
         ELSE [ok |-> FALSE, stock |-> stock, at |-> k, failed |-> l]

ReserveAll(stock, lines) == ReserveFrom(stock, lines, 1)

\* an abort that leaves the writes of the session in the store
AbortTransaction_KeepsWrites(before, written) == written

\* session.abortTransaction(): the store keeps what it had before
AbortTransaction(before, written) == before

\* session.commitTransaction(): the writes of the session become the store's
CommitTransaction(before, written) == written

\* startTransaction .. commitTransaction of the transactional checkout:
\* reserveStock, order.save({session}), cart cleared, commit; on any error
\* abortTransaction and a 500
CheckoutTx(p) ==
    /\ req[p].op = "checkout" /\ req[p].pc = "tx"
    /\ LET r == ReserveAll(inStock, OrderLines(req[p].items)) IN
       IF r.ok
       THEN \/ /\ inStock' = CommitTransaction(inStock, r.stock)
               /\ orders' = Append(orders, NewOrder(req[p].items))
               /\ sessCart' = [sessCart EXCEPT ![p] = <<>>]
               /\ req' = [req EXCEPT ![p] = [@ EXCEPT !.pc = "intent",
                                                      !.oid = Len(orders) + 1]]
            \/ /\ inStock' = AbortTransaction(inStock, r.stock)
               /\ UNCHANGED <<orders, sessCart>>
               /\ req' = [req EXCEPT ![p] = Fail(p, "ServerError", "StoreError")]
       ELSE /\ inStock' = AbortTransaction(inStock, r.stock)
            /\ UNCHANGED <<orders, sessCart>>
            /\ req' = [req EXCEPT ![p] =
                 [Fail(p, "ServerError", ReserveError(r.failed.product)) EXCEPT
                    !.idx = r.at,
                    !.avail = IF Visible(r.failed.product)
                              THEN inStock[r.failed.product] ELSE 0]]
    /\ UNCHANGED <<soldCount, isDeleted, isPublished, requests, stock0>>

\* ------------------------------------------------------ order documents
\* order.save() writes the paths the handler modified since it loaded the
\* document; every other path keeps what the store has
SaveDiff(stored, loaded, edited) ==
    [f \in DOMAIN stored |->
        IF edited[f] # loaded[f] THEN edited[f] ELSE stored[f]]

\* the assignments each handler makes on the loaded order
SuccessEdit(o) ==
    [o EXCEPT !.pay = "succeeded", !.status = "confirmed",
              !.ship = "preparing"]
FailedEdit(o) == [o EXCEPT !.pay = "failed", !.status = "cancelled"]
CanceledEdit(o) ==
    [o EXCEPT !.pay = "failed", !.status = "cancelled",
              !.cancelReason = "payment"]
RefundEdit(o) == [o EXCEPT !.pay = "refunded", !.status = "refunded"]
CancelEdit(o) ==
    [o EXCEPT !.status = "cancelled", !.ship = "cancelled",
              !.cancelReason = "customer", !.cancelledBy = TRUE]

EditFor(r) ==
    CASE r.ev = "succeeded" -> SuccessEdit(r.snap)
      [] r.ev = "failed" -> FailedEdit(r.snap)
      [] r.ev = "canceled" -> CanceledEdit(r.snap)
      [] r.ev = "refunded" -> RefundEdit(r.snap)
      [] OTHER -> r.snap

\* a lookup that matches every order
FindByRef_Any(r) == 1..Len(orders)

\* Order.findOne({'payment.stripePaymentIntentId': id})
FindByRef(r) == {o \in 1..Len(orders) : orders[o].ref = r}

\* populate('items.product'): a product the query does not find is null
Populate(lines) == [k \in 1..Len(lines) |-> Visible(lines[k].product)]

\* ---------------------------------------------------------- stripeWebhook
EventTypes == {"succeeded", "failed", "canceled", "refunded", "other"}

\* the order reference an event carries: paymentIntent.id of a payment intent
\* event, charge.payment_intent of a charge.refunded event, which is null for
\* a charge made without a payment intent; an order saved without
\* stripePaymentIntentId is what a query for null matches
NoRef == 0
EventRefs == {NoRef} \cup (1..MaxOrders)

\* a constructEvent that accepts every payload
VerifySignature_Skip(sigOk) == TRUE

\* stripe.webhooks.constructEvent(req.body, sig, endpointSecret): returns the
\* event if the signature verifies, throws otherwise
VerifySignature(sigOk) == sigOk

\* constructEvent and the switch on event.type
WebhookStart(p, ev, r, sigOk) ==
    /\ req[p].op = "idle"
    /\ requests < MaxRequests
    /\ requests' = requests + 1
    /\ req' = [req EXCEPT ![p] =
         IF ~VerifySignature(sigOk)
         THEN [Idle EXCEPT !.op = "webhook", !.pc = "done", !.ev = ev,
                           !.ref = r, !.res = "400", !.sig = sigOk]
         ELSE IF ev = "other"
         THEN [Idle EXCEPT !.op = "webhook", !.pc = "done", !.ev = ev,
                           !.ref = r, !.res = "received", !.sig = sigOk]
         ELSE [Idle EXCEPT !.op = "webhook", !.pc = "find", !.ev = ev,
                           !.ref = r, !.sig = sigOk]]
    /\ UNCHANGED <<catalog, orders, sessCart, stock0>>

\* the handler's findOne: no order, or the loaded document and the statements
\* up to the next await; legacy selects the handlers without a transaction
HandlerFind(p, legacy) ==
    /\ req[p].op = "webhook" /\ req[p].pc = "find"
    /\ req' = [req EXCEPT ![p] =
         IF FindByRef(req[p].ref) = {}
         THEN Finish(p, "received")
         ELSE LET o == CHOOSE x \in FindByRef(req[p].ref) : TRUE IN
              [@ EXCEPT !.oid = o, !.snap = orders[o],
                        !.pop = Populate(orders[o].items),
                        !.pc = IF legacy \/ req[p].ev = "refunded"
                               THEN "save" ELSE "commit"]]
    /\ UNCHANGED <<catalog, orders, sessCart, requests, stock0>>

\* handlePaymentSuccess / handlePaymentFailed / handlePaymentCanceled from
\* order.save({session}) to commitTransaction; item.product._id of a null
\* product throws, and any error aborts the transaction
HandlerCommit(p) ==
    /\ req[p].op = "webhook" /\ req[p].pc = "commit"
    /\ LET r == req[p]
           o == r.oid
           lines == r.snap.items
           saved == [orders EXCEPT ![o] = SaveDiff(orders[o], r.snap, EditFor(r))]
           sold == IF r.ev = "succeeded" THEN IncAll(soldCount, lines, 1)
                   ELSE soldCount
           stock == IF r.ev = "succeeded" THEN inStock
                    ELSE IncAll(inStock, lines, 1)
       IN
       IF \E k \in 1..Len(lines) : ~r.pop[k]
       THEN /\ orders' = AbortTransaction(orders, saved)
            /\ inStock' = inStock
            /\ soldCount' = soldCount
            /\ req' = [req EXCEPT ![p] = Fail(p, "500", "TypeError")]
       ELSE \/ /\ orders' = CommitTransaction(orders, saved)
               /\ inStock' = CommitTransaction(inStock, stock)
               /\ soldCount' = CommitTransaction(soldCount, sold)
               /\ req' = [req EXCEPT ![p] =
                    IF r.ev = "canceled" THEN Finish(p, "received")
                    ELSE [@ EXCEPT !.pc = "mail"]]
            \/ /\ orders' = AbortTransaction(orders, saved)
               /\ inStock' = AbortTransaction(inStock, stock)
               /\ soldCount' = AbortTransaction(soldCount, sold)
               /\ req' = [req EXCEPT ![p] = Fail(p, "500", "StoreError")]
    /\ UNCHANGED <<isDeleted, isPublished, sessCart, requests, stock0>>

\* await order.save() of a handler that writes without a session
HandlerSave(p) ==
    /\ req[p].op = "webhook" /\ req[p].pc = "save"
    /\ LET r == req[p] IN
       \/ /\ orders' = [orders EXCEPT ![r.oid] =
                          SaveDiff(orders[r.oid], r.snap, EditFor(r))]
          /\ req' = [req EXCEPT ![p] =
               IF r.ev \in {"succeeded", "refunded"}
               THEN [@ EXCEPT !.pc = "items", !.idx = 1]
               ELSE IF r.ev = "failed" THEN [@ EXCEPT !.pc = "mail"]
               ELSE Finish(p, "received")]
       \/ /\ orders' = orders
          /\ req' = [req EXCEPT ![p] = Fail(p, "500", "StoreError")]
    /\ UNCHANGED <<catalog, sessCart, requests, stock0>>

\* the $inc of one iteration of "for (const item of order.items)":
\* handleRefund and cancelOrder restore, the handlePaymentSuccess that has no
\* transaction takes
StockDelta(r) == IF r.op = "webhook" /\ r.ev = "succeeded" THEN -1 ELSE 1

\* one findByIdAndUpdate(item.product, {$inc: {inStock, soldCount}})
HandlerItem(p) ==
    /\ req[p].op \in {"webhook", "cancel"} /\ req[p].pc = "items"
    /\ LET r == req[p]
           l == r.snap.items[r.idx]
           hit == r.pop[r.idx] /\ Visible(l.product)
           d == StockDelta(r) * l.quantity
       IN
       \/ /\ inStock' = IF hit THEN [inStock EXCEPT ![l.product] = @ + d]
                         ELSE inStock
          /\ soldCount' = IF hit THEN [soldCount EXCEPT ![l.product] = @ - d]
                           ELSE soldCount
          /\ req' = [req EXCEPT ![p] =
               IF r.idx < Len(r.snap.items) THEN [@ EXCEPT !.idx = @ + 1]
               ELSE IF r.op = "cancel" THEN Finish(p, "ok")
               ELSE [@ EXCEPT !.pc = "mail"]]
       \/ /\ UNCHANGED <<inStock, soldCount>>
          /\ req' = [req EXCEPT ![p] = Fail(p, "500", "StoreError")]
    /\ UNCHANGED <<isDeleted, isPublished, orders, sessCart, requests, stock0>>

\* a mailer whose error reaches the catch of stripeWebhook
MailResponse_Throws(sent) == IF sent THEN "received" ELSE "500"

\* the answer of stripeWebhook after send...Email: the mailer catches its own
\* error, so res.json({received: true}) follows either way
MailResponse(sent) == "received"

\* await send...Email(order): sent or failed, the error is swallowed; then
\* res.json({received: true})
HandlerMail(p) ==
    /\ req[p].op = "webhook" /\ req[p].pc = "mail"
    /\ \E sent \in BOOLEAN :
          req' = [req EXCEPT ![p] =
             IF sent THEN Finish(p, MailResponse(sent))
             ELSE Fail(p, MailResponse(sent), "MailError")]
    /\ UNCHANGED <<catalog, orders, sessCart, requests, stock0>>

\* ------------------------------------------------------------ cancelOrder
NON_CANCELLABLE_ORDER_STATUSES ==
    {"shipped", "delivered", "cancelled", "refunded"}

\* findOne({_id, user}) of a request of the order's owner, and the status
\* test
CancelStart(p, o) ==
    /\ req[p].op = "idle"
    /\ requests < MaxRequests
    /\ requests' = requests + 1
    /\ req' = [req EXCEPT ![p] =
         IF o > Len(orders)
         THEN [Idle EXCEPT !.op = "cancel", !.pc = "done", !.res = "404"]
         ELSE IF orders[o].status \in NON_CANCELLABLE_ORDER_STATUSES
         THEN [Idle EXCEPT !.op = "cancel", !.pc = "done", !.oid = o,
                           !.snap = orders[o], !.res = "400"]
         ELSE [Idle EXCEPT !.op = "cancel", !.pc = "save", !.oid = o,
                           !.snap = orders[o],
                           !.pop = Populate(orders[o].items)]]
    /\ UNCHANGED <<catalog, orders, sessCart, stock0>>

\* await order.save(), then the test of order.payment.status
CancelSave(p) ==
    /\ req[p].op = "cancel" /\ req[p].pc = "save"
    /\ LET r == req[p] IN
       \/ /\ orders' = [orders EXCEPT ![r.oid] =
                          SaveDiff(orders[r.oid], r.snap, CancelEdit(r.snap))]
          /\ req' = [req EXCEPT ![p] =
               IF r.snap.pay = "succeeded"
               THEN [@ EXCEPT !.pc = "items", !.idx = 1]
               ELSE Finish(p, "ok")]
       \/ /\ orders' = orders
          /\ req' = [req EXCEPT ![p] = Fail(p, "500", "StoreError")]
    /\ UNCHANGED <<catalog, sessCart, requests, stock0>>

\* ---------------------------------------------------------------- catalog
\* deleteProduct: the soft delete
DeleteProduct(i) ==
    /\ ~isDeleted[i]
    /\ isDeleted' = [isDeleted EXCEPT ![i] = TRUE]
    /\ UNCHANGED <<inStock, soldCount, isPublished, orders, req, sessCart,
                   requests, stock0>>

\* --------------------------------------------------------- specifications
Common(p) ==
    \/ \E c \in Carts \cup {<<>>}, addr \in {"ok", "missing", "invalid"} :
          CheckoutStart(p, c, addr)
    \/ CheckoutIntent(p)
    \/ CheckoutSaveRef(p)
    \/ \E ev \in EventTypes, r \in EventRefs, sigOk \in BOOLEAN :
          /\ r = NoRef => ev = "refunded"
          /\ WebhookStart(p, ev, r, sigOk)
    \/ HandlerSave(p)
    \/ HandlerItem(p)
    \/ HandlerMail(p)
    \/ \E o \in 1..MaxOrders : CancelStart(p, o)
    \/ CancelSave(p)
    \/ Return(p)

\* the payment controller whose handlers run in transactions
Next ==
    \/ \E p \in Clients :
          \/ Common(p)
          \/ CheckoutValidate(p, FALSE)
          \/ CheckoutSave(p)
          \/ HandlerFind(p, FALSE)
          \/ HandlerCommit(p)
    \/ \E i \in Items : DeleteProduct(i)

Spec == Init /\ [][Next]_vars

\* the payment controller whose handlers write without a transaction
NextLegacy ==
    \/ \E p \in Clients :
          \/ Common(p)
          \/ CheckoutValidate(p, FALSE)
          \/ CheckoutSave(p)
          \/ HandlerFind(p, TRUE)
    \/ \E i \in Items : DeleteProduct(i)

SpecLegacy == Init /\ [][NextLegacy]_vars

\* the checkout wrapped in a transaction, as the stock transaction guide
\* gives it
NextTx ==
    \/ \E p \in Clients :
          \/ Common(p)
          \/ CheckoutValidate(p, TRUE)
          \/ CheckoutTx(p)
          \/ HandlerFind(p, FALSE)
          \/ HandlerCommit(p)
    \/ \E i \in Items : DeleteProduct(i)

SpecTx == Init /\ [][NextTx]_vars

\* ------------------------------------------------- stock manager, direct
\* releaseStock([{productId: i, quantity: q}]) by a caller: on its own, or to
\* undo the reservation the caller has just made
ReleaseStock(p, i, q) ==
    /\ \/ req[p].op = "idle"
       \/ /\ req[p].op = "reserve" /\ req[p].pc = "done" /\ req[p].res = "ok"
          /\ req[p].items = <<Line(i, q)>>
    /\ inStock' = IncAll(inStock, <<Line(i, q)>>, 1)
    /\ req' = [req EXCEPT ![p] =
         [Idle EXCEPT !.op = IF req[p].op = "idle" THEN "release" ELSE "undo",
                      !.pc = "done", !.items = <<Line(i, q)>>, !.res = "ok"]]
    /\ UNCHANGED <<soldCount, isDeleted, isPublished, orders, sessCart,
                   requests, stock0>>

\* updateSoldCount([{productId: i, quantity: q}]) by a caller
UpdateSoldCount(p, i, q) ==
    /\ req[p].op = "idle"
    /\ soldCount' = IncAll(soldCount, <<Line(i, q)>>, 1)
    /\ req' = [req EXCEPT ![p] =
         [Idle EXCEPT !.op = "sold", !.pc = "done", !.items = <<Line(i, q)>>,
                      !.res = "ok"]]
    /\ UNCHANGED <<inStock, isDeleted, isPublished, orders, sessCart,
                   requests, stock0>>

\* bulkPublishProducts with isPublished: false on one product
UnpublishProduct(i) ==
    /\ isPublished[i] /\ ~isDeleted[i]
    /\ isPublished' = [isPublished EXCEPT ![i] = FALSE]
    /\ UNCHANGED <<inStock, soldCount, isDeleted, orders, req, sessCart,
                   requests, stock0>>

\* the stock manager under concurrent callers and catalog changes
NextStock ==
    \/ \E p \in Callers :
          \/ \E i \in Items, q \in 1..MaxQty :
                \/ ReserveCall(p, i, q)
                \/ ReleaseStock(p, i, q)
                \/ UpdateSoldCount(p, i, q)
          \/ ReserveUpdate(p)
          \/ ReserveDiagnose(p)
    \/ \E i \in Items : DeleteProduct(i) \/ UnpublishProduct(i)

SpecStock == Init /\ [][NextStock]_vars

\* ================================================================ claims
Quiet == \A p \in Clients : req[p].pc \in {"idle", "done"}

\* quantity of item i on all orders
RECURSIVE HeldFrom(_, _)
HeldFrom(o, i) ==
    IF o > Len(orders) THEN 0
    ELSE QtyOf(orders[o].items, i) + HeldFrom(o + 1, i)
Held(i) == HeldFrom(1, i)

\* no payment event and no cancellation has touched any order
Untouched ==
    \A o \in 1..Len(orders) :
        orders[o].pay = "pending" /\ orders[o].status = "pending"

\* slot p takes a step of its handler for an event of one of the types evs
Handles(p, evs) ==
    /\ req[p].op = "webhook"
    /\ req[p].ev \in evs
    /\ req[p].pc \in {"commit", "save", "items"}
    /\ req'[p] # req[p]

\* ---------------------------------------------------------------------- C1
ReserveAttempts(i) ==
    {p \in Callers : req[p].op = "reserve" /\ req[p].items[1].product = i}

\* C1: when more reservation attempts of quantity 1 than the item's
\* availableQuantity k have all ended, exactly k of them succeeded, all the
\* others failed with InsufficientStock, and availableQuantity is 0
C1_NoOverselling ==
    \A i \in Items :
        LET A == ReserveAttempts(i) IN
        ( /\ \A p \in Callers : req[p].pc = "done"
          /\ \A p \in A : req[p].items[1].quantity = 1
          /\ Cardinality(A) > stock0[i] )
        => /\ Cardinality({p \in A : req[p].res = "ok"}) = stock0[i]
           /\ Cardinality({p \in A : req[p].res = "InsufficientStock"})
                = Cardinality(A) - stock0[i]
           /\ inStock[i] = 0

\* k = 1 and three attempts of quantity 1 on the item have ended
C1_Witness ==
    \E i \in Items :
        /\ stock0[i] = 1
        /\ \A p \in Callers : req[p].pc = "done"
        /\ Cardinality(ReserveAttempts(i)) >= 3
        /\ \A p \in ReserveAttempts(i) : req[p].items[1].quantity = 1

\* ---------------------------------------------------------------------- C2
\* C2: availableQuantity (inStock) of every item is >= 0 in every state
C2_StockNeverNegative == \A i \in Items : inStock[i] >= 0

\* ---------------------------------------------------------------------- C3
\* C3: once the checkout calls have returned, every order that exists has its
\* lines reserved and no stock is taken without an order: while no payment
\* event or cancellation has touched an order, each item's availableQuantity
\* is its initial value less the quantities on the orders
C3_OrderIffReserved ==
    (Quiet /\ Untouched) => \A i \in Items : inStock[i] = stock0[i] - Held(i)

OneUnitOfItem1 == <<[product |-> 1, quantity |-> 1, price |-> CurrentPrice(1)]>>

\* C5: item 1 starts with availableQuantity 1; when two concurrent checkouts
\* for one unit of it are the only requests and both have returned without a
\* store or payment-provider failure, exactly one order exists, with
\* paymentState pending, and the other checkout was rejected for lack of stock
C5_OneWinner ==
    ( /\ stock0[1] = 1 /\ ~isDeleted[1]
      /\ requests = 2
      /\ \A p \in Clients : /\ req[p].op = "checkout" /\ req[p].pc = "done"
                              /\ req[p].items = OneUnitOfItem1
                              /\ req[p].err \notin {"StoreError", "StripeError"} )
    => /\ Len(orders) = 1
       /\ orders[1].pay = "pending"
       /\ Cardinality({p \in Clients : req[p].res = "ok"}) = 1
       /\ Cardinality({p \in Clients :
             \/ req[p].res = "OutOfStock"
             \/ req[p].err = "InsufficientStock"}) = 1

\* ---------------------------------------------------------------------- C6
\* C6: after a checkout alone, availableQuantity of each item is down by the
\* ordered quantity and soldCount is untouched; after the payment_succeeded
\* that follows it, soldCount is up by the ordered quantity and
\* availableQuantity is still down by exactly that quantity
C6_ReserveThenCommit ==
    (Quiet /\ Len(orders) = 1 /\ orders[1].ref # 0
       /\ \A i \in Items : ~isDeleted[i])
    => /\ (requests = 1 /\ Untouched)
            => \A i \in Items : /\ inStock[i] = stock0[i] - Held(i)
                                 /\ soldCount[i] = 0
       /\ (requests = 2 /\ orders[1].pay = "succeeded")
            => \A i \in Items : /\ inStock[i] = stock0[i] - Held(i)
                                 /\ soldCount[i] = Held(i)

\* ---------------------------------------------------------------------- C7
\* C7: a payment_succeeded delivered for an order whose payment already
\* succeeded changes neither soldCount nor availableQuantity
C7_IdempotentCommit ==
    [][\A p \in Clients :
          (Handles(p, {"succeeded"}) /\ orders[req[p].oid].pay = "succeeded")
          => (soldCount' = soldCount /\ inStock' = inStock)]_vars

\* ---------------------------------------------------------------------- C8
\* C8: a payment_failed or payment_canceled delivered for an order whose
\* payment is already failed releases nothing: availableQuantity is unchanged
C8_ReleaseOnce ==
    [][\A p \in Clients :
          (Handles(p, {"failed", "canceled"}) /\ orders[req[p].oid].pay = "failed")
          => inStock' = inStock]_vars

\* ---------------------------------------------------------------------- C9
\* C9: a payment_succeeded, payment_failed or payment_canceled handled for an
\* order whose paymentState is not pending changes no order, no
\* availableQuantity and no soldCount
C9_OnlyPendingTransitions ==
    [][\A p \in Clients :
          ( /\ Handles(p, {"succeeded", "failed", "canceled"})
            /\ orders[req[p].oid].pay # "pending" )
          => (orders' = orders /\ inStock' = inStock /\ soldCount' = soldCount)
      ]_vars

\* --------------------------------------------------------------------- C10
\* C10: a payment_succeeded handled for an order whose paymentState is
\* pending, unless the store fails, sets paymentState succeeded, orderStatus
\* confirmed and shippingState preparing, and adds every line's quantity to
\* its item's soldCount
C10_SuccessTransition ==
    [][\A p \in Clients :
          ( /\ Handles(p, {"succeeded"}) /\ req[p].pc = "commit"
            /\ orders[req[p].oid].pay = "pending"
            /\ req'[p].err # "StoreError" )
          => LET o == req[p].oid IN
             /\ orders'[o].pay = "succeeded"
             /\ orders'[o].status = "confirmed"
             /\ orders'[o].ship = "preparing"
             /\ \A i \in Items :
                   soldCount'[i] = soldCount[i] + QtyOf(orders[o].items, i)
      ]_vars

\* --------------------------------------------------------------------- C11
\* C11: a payment_failed or payment_canceled handled for an order whose
\* paymentState is pending, unless the store fails, sets paymentState failed
\* and orderStatus cancelled (payment_canceled also sets the cancellation
\* reason) and adds every line's quantity back to its item's
\* availableQuantity, whether or not the item has since been soft-deleted
C11_FailureTransition ==
    [][\A p \in Clients :
          ( /\ Handles(p, {"failed", "canceled"}) /\ req[p].pc = "commit"
            /\ orders[req[p].oid].pay = "pending"
            /\ req'[p].err # "StoreError" )
          => LET o == req[p].oid IN
             /\ orders'[o].pay = "failed"
             /\ orders'[o].status = "cancelled"
             /\ (req[p].ev = "canceled" => orders'[o].cancelReason # "none")
             /\ \A i \in Items :
                   inStock'[i] = inStock[i] + QtyOf(orders[o].items, i)
      ]_vars

\* --------------------------------------------------------------------- C12
\* C12: a charge_refunded handled for an order whose payment had not
\* succeeded when the handler loaded it (paymentState pending, failed or
\* refunded) changes no order, no availableQuantity and no soldCount
C12_RefundOnlyAfterSuccess ==
    [][\A p \in Clients :
          (Handles(p, {"refunded"}) /\ req[p].snap.pay # "succeeded")
          => (orders' = orders /\ inStock' = inStock /\ soldCount' = soldCount)
      ]_vars

\* --------------------------------------------------------------------- C13
\* the stock writes the handler of event ev owes for the lines of an order
StockWritten(ev, lines) ==
    \A i \in Items :
        /\ inStock'[i] - inStock[i] =
             (IF ev \in {"failed", "canceled", "refunded"}
              THEN QtyOf(lines, i) ELSE 0)
        /\ soldCount'[i] - soldCount[i] =
             (IF ev = "succeeded" THEN QtyOf(lines, i)
              ELSE IF ev = "refunded" THEN 0 - QtyOf(lines, i) ELSE 0)

\* C13: the order mutation of a payment event and the stock writes for all
\* its lines become visible together: a handler step that transitions the
\* order also makes every line's stock write, and a handler step that writes
\* stock also transitions the order
C13_AtomicUnit ==
    [][\A p \in Clients :
          Handles(p, {"succeeded", "failed", "canceled", "refunded"})
          => LET o == req[p].oid IN
             /\ orders'[o] # orders[o]
                  => StockWritten(req[p].ev, orders[o].items)
             /\ (inStock' # inStock \/ soldCount' # soldCount)
                  => /\ orders'[o].pay = EditFor(req[p]).pay
                     /\ orders'[o].status = EditFor(req[p]).status
                     /\ StockWritten(req[p].ev, orders[o].items)
      ]_vars

\* --------------------------------------------------------------------- C14
\* the callers other than p that have called the stock manager worked on
\* items other than i, and the catalog has not touched i
OnlyOtherItems(p, i) ==
    /\ \A q \in Callers \ {p} :
          req[q].op # "idle" => req[q].items[1].product # i
    /\ ~isDeleted[i]
    /\ isPublished[i]

\* C14: when a caller has reserved q units of item i and then released them,
\* and every concurrent operation was on other items, availableQuantity of i
\* is what it was before the reservation
C14_ReserveReleaseSymmetry ==
    \A p \in Callers :
        (req[p].op = "undo" /\ OnlyOtherItems(p, req[p].items[1].product))
        => inStock[req[p].items[1].product] = stock0[req[p].items[1].product]

\* a caller has reserved and released 2 units of an item while the other
\* callers reserved and released units of another item
C14_Witness ==
    \E p \in Callers :
        /\ req[p].op = "undo"
        /\ req[p].items[1].quantity = 2
        /\ OnlyOtherItems(p, req[p].items[1].product)
        /\ \E q \in Callers : req[q].op = "reserve" /\ req[q].res = "ok"
        /\ \E q \in Callers : req[q].op = "release"

\* --------------------------------------------------------------------- C15
\* C15: the step in which reserve(i, q) fails leaves availableQuantity and
\* soldCount unchanged; it fails with InsufficientStock only when
\* availableQuantity < q, reporting availableQuantity (an amount smaller than
\* q), and with ItemUnavailable only when the item is deleted or unpublished
C15_ReserveErrors ==
    [][\A p \in Callers :
          ( /\ req[p].op = "reserve" /\ req[p].pc \in {"update", "diagnose"}
            /\ req'[p].pc = "done" /\ req'[p].res # "ok" )
          => LET i == req[p].items[1].product
                 q == req[p].items[1].quantity
             IN /\ inStock' = inStock /\ soldCount' = soldCount
                /\ req'[p].res \in {"InsufficientStock", "NotAvailable",
                                    "NotPublished"}
                /\ req'[p].res = "InsufficientStock"
                     => /\ inStock[i] < q
                        /\ req'[p].avail = inStock[i]
                        /\ req'[p].avail < q
                /\ req'[p].res \in {"NotAvailable", "NotPublished"}
                     => (isDeleted[i] \/ ~isPublished[i])
      ]_vars

\* --------------------------------------------------------------------- C16
\* the cart holds a line whose remembered unit price is not the current one
StaleCart(c) ==
    \E k \in 1..Len(c) : c[k].price # CurrentPrice(c[k].product)

\* C16 as stated: a checkout that validates a cart with a stale price always
\* ends with PriceChanged
C16_AlwaysPriceChanged ==
    \A p \in Clients :
        ( /\ req[p].op = "checkout" /\ req[p].pc = "done"
          /\ req[p].items # <<>>
          /\ StaleCart(sessCart[p]) )
        => req[p].res = "PriceChanged"

\* C16, amended: a checkout of a cart with a stale price never gets past the
\* validation (no order, no reservation, no payment request), and it ends
\* with PriceChanged unless it is rejected first for the shipping address or
\* for a line whose item is unavailable or out of stock
C16_StalePriceRejected ==
    \A p \in Clients :
        (req[p].op = "checkout" /\ StaleCart(sessCart[p]))
        => /\ req[p].pc \in {"validate", "done"}
           /\ req[p].oid = 0
           /\ req[p].pc = "done"
                => req[p].res \in {"PriceChanged", "MissingFields",
                                   "InvalidAddress", "ProductNotFound",
                                   "OutOfStock"}

\* a checkout of a cart with a stale price has ended with PriceChanged
C16_Witness ==
    \E p \in Clients :
        /\ req[p].op = "checkout" /\ req[p].pc = "done"
        /\ StaleCart(sessCart[p])
        /\ req[p].res = "PriceChanged"

\* --------------------------------------------------------------------- C17
\* C17: every step of a delivery whose signature does not verify leaves all
\* orders, availableQuantity and soldCount unchanged and answers 400,
\* whatever event type and reference it carries
C17_UnverifiedRejected ==
    [][\A p \in Clients :
          (req'[p].op = "webhook" /\ ~req'[p].sig /\ req'[p] # req[p])
          => /\ orders' = orders
             /\ inStock' = inStock /\ soldCount' = soldCount
             /\ req'[p].pc = "done"
             /\ req'[p].res = "400"
      ]_vars

\* a payment_succeeded delivery naming an existing pending order was rejected
\* for its signature
C17_Witness ==
    \E p \in Clients :
        /\ req[p].op = "webhook" /\ req[p].pc = "done"
        /\ ~req[p].sig
        /\ req[p].res = "400"
        /\ req[p].ev = "succeeded"
        /\ \E o \in 1..Len(orders) :
              orders[o].ref = req[p].ref /\ orders[o].pay = "pending"

\* --------------------------------------------------------------------- C18
\* C18: the step that finds a verified delivery to match no transition (an
\* unknown event type, or a reference that no order carries) answers
\* received, raises no error, and leaves all orders, availableQuantity and
\* soldCount unchanged
C18_NoMatchAcknowledged ==
    [][\A p \in Clients :
          ( /\ req'[p].op = "webhook" /\ req'[p].sig /\ req'[p] # req[p]
            /\ \/ req'[p].ev = "other"
               \/ /\ req[p].pc = "find"
                  /\ \A o \in 1..Len(orders) : orders[o].ref # req[p].ref )
          => /\ orders' = orders
             /\ inStock' = inStock /\ soldCount' = soldCount
             /\ req'[p].pc = "done"
             /\ req'[p].res = "received"
             /\ req'[p].err = "none"
      ]_vars

\* a verified delivery of an unknown type and a verified payment_failed whose
\* reference matches none of the existing orders were both acknowledged
C18_Witness ==
    /\ orders # <<>>
    /\ \E p \in Clients :
          /\ req[p].op = "webhook" /\ req[p].pc = "done" /\ req[p].sig
          /\ req[p].ev = "other" /\ req[p].res = "received"
    /\ \E p \in Clients :
          /\ req[p].op = "webhook" /\ req[p].pc = "done" /\ req[p].sig
          /\ req[p].ev = "failed" /\ req[p].oid = 0
          /\ req[p].res = "received"

\* --------------------------------------------------------------------- C19
\* C19: one checkout has created the only order and one payment notification
\* has been handled for it; if a store write failed during that delivery, the
\* delivery was answered with an error and the order and the stock counters
\* are as the checkout left them (the order pending, nothing sold, inStock
\* as this checkout leaves it)
C19_FailureNotAcknowledged ==
    \A p \in Clients :
        ( /\ Quiet /\ Len(orders) = 1 /\ requests = 2
          /\ req[p].op = "webhook" /\ req[p].pc = "done"
          /\ req[p].err = "StoreError" )
        => /\ req[p].res = "500"
           /\ orders[1] = [NewOrder(<<>>) EXCEPT !.items = orders[1].items,
                                                 !.ref = orders[1].ref]
           /\ \A i \in Items : soldCount[i] = 0 /\ inStock[i] = stock0[i]

\* --------------------------------------------------------------------- C20
\* C20: when the e-mail that follows a handled payment event cannot be sent,
\* the step leaves the orders and the stock counters as the handler committed
\* them and the delivery is still answered received
C20_MailFailureHarmless ==
    [][\A p \in Clients :
          ( /\ req[p].op = "webhook" /\ req[p].pc = "mail"
            /\ req'[p].err = "MailError" )
          => /\ orders' = orders
             /\ inStock' = inStock /\ soldCount' = soldCount
             /\ req'[p].res = "received"
      ]_vars

\* the confirmation e-mail of a payment_succeeded failed after the order was
\* confirmed and its sale counted, and the delivery was acknowledged
C20_Witness ==
    \E p \in Clients :
        /\ req[p].op = "webhook" /\ req[p].pc = "done"
        /\ req[p].ev = "succeeded"
        /\ req[p].err = "MailError"
        /\ req[p].res = "received"
        /\ orders[req[p].oid].pay = "succeeded"
        /\ orders[req[p].oid].status = "confirmed"
        /\ \E i \in Items : soldCount[i] > 0


\* ---------------------------------------------------------------------
\* Webhook deliveries served one at a time, with the scheduling the runtime
\* gives: a store call settles (with a result or an error), so the handler
\* step waiting for it runs; the call to the mail transport is outside the
\* service and nothing makes it settle, so HandlerMail carries no fairness
NextLive ==
    \/ Common(1)
    \/ CheckoutValidate(1, FALSE)
    \/ CheckoutSave(1)
    \/ HandlerFind(1, FALSE)
    \/ HandlerCommit(1)
    \/ \E i \in Items : DeleteProduct(i)

SpecLive ==
    /\ Init
    /\ [][NextLive]_vars
    /\ WF_vars(HandlerFind(1, FALSE))
    /\ WF_vars(HandlerCommit(1))
    /\ WF_vars(HandlerSave(1))
    /\ WF_vars(HandlerItem(1))

\* C21: a delivery that has been received is eventually answered, whether or
\* not the outbound mail call ever completes
C21_AckDoesNotWaitForMail ==
    (req[1].op = "webhook" /\ req[1].pc # "done")
        ~> (req[1].op = "webhook" /\ req[1].pc = "done")

\* the request r is inside a call of the stock manager: reserveStock,
\* releaseStock or updateSoldCount
LedgerCall(r) ==
    \/ r.op \in {"reserve", "release", "undo", "sold"}
    \/ r.op = "webhook" /\ r.pc = "commit"
    \/ r.op = "checkout" /\ r.pc = "tx"

\* C22: every step that changes inStock or soldCount is a step of a request
\* that is inside a stock manager call
C22_OnlyLedgerWrites ==
    [][(inStock' # inStock \/ soldCount' # soldCount)
          => \E p \in Procs :
                /\ req'[p] # req[p]
                /\ LedgerCall(req[p]) \/ LedgerCall(req'[p])]_vars

\* order o was saved without a payment reference and no checkout is still
\* between its creation and the saving of the reference
NoPaymentRequest(o) ==
    /\ orders[o].ref = NoRef
    /\ ~\E p \in Procs : /\ req[p].op = "checkout" /\ req[p].oid = o
                         /\ req[p].pc \in {"intent", "saveRef"}

\* C23: a checkout whose payment request fails answers with the failure and
\* leaves the created order as it is, without a payment reference; from then
\* on the order is changed by a user cancellation only
C23_FailedPaymentRequest ==
    [][/\ \A p \in Procs :
             (req[p].op = "checkout" /\ req[p].pc = "intent"
                 /\ req'[p].pc = "done")
                => /\ req'[p].res = "ServerError"
                   /\ orders' = orders
                   /\ orders[req[p].oid].ref = NoRef
       /\ \A o \in 1..Len(orders) :
             (NoPaymentRequest(o) /\ orders'[o] # orders[o])
                => \E p \in Procs : req[p].op = "cancel" /\ req'[p] # req[p]
      ]_vars

\* the order statuses from which no transition leaves
TerminalStatuses == {"delivered", "cancelled", "refunded"}

\* C24: no step removes an order, and an order whose status is terminal keeps
\* a terminal status
C24_TerminalIsFinal ==
    [][/\ Len(orders') >= Len(orders)
       /\ \A o \in 1..Len(orders) :
             orders[o].status \in TerminalStatuses
                => orders'[o].status \in TerminalStatuses]_vars

\* C25: the number of units sold of a product is never negative
C25_SoldCountNeverNegative == \A i \in Items : soldCount[i] >= 0

\* ---------------------------------------------------------------------
\* Order numbers. order.save() of a new order runs the pre('save') hook of
\* the order schema: countDocuments(), then the number built from Date.now()
\* and the count, then the insert, on which the store enforces the unique
\* index of orderNumber. The clock values two saves may read are MaxTime many.
MaxTime == 2
Times == 1..MaxTime

\* Number.prototype.toString()
RECURSIVE Digits(_)
Digits(n) == IF n < 10 THEN <<n>> ELSE Append(Digits(n \div 10), n % 10)

\* String.prototype.padStart(w, fill)
RECURSIVE PadStart(_, _, _)
PadStart(s, w, fill) ==
    IF Len(s) >= w THEN s ELSE PadStart(<<fill>> \o s, w, fill)

\* `ORD-${Date.now()}-${(count + 1).toString().padStart(5, '0')}`
OrderNumber(now, count) ==
    <<"ORD", "-">> \o Digits(now) \o <<"-">>
        \o PadStart(Digits(count + 1), 5, 0)

\* an order document with its orderNumber
Numbered(o, n) ==
    [f \in DOMAIN o \cup {"num"} |-> IF f = "num" THEN n ELSE o[f]]

\* a collection without the unique index
NumberTaken_NoIndex(n) == FALSE

\* unique: true on orderNumber: the store holds a document with this number
NumberTaken(n) == \E o \in 1..Len(orders) : orders[o].num = n

\* the hook's await countDocuments(); idx keeps count + 1
PreSaveCount(p) ==
    /\ req[p].op = "checkout" /\ req[p].pc = "save" /\ req[p].idx = 0
    /\ \/ req' = [req EXCEPT ![p].idx = Len(orders) + 1]
       \/ req' = [req EXCEPT ![p] = Fail(p, "ServerError", "StoreError")]
    /\ UNCHANGED <<catalog, orders, sessCart, requests, stock0>>

\* the rest of the hook and the insert: the number is built at clock value
\* now; the store rejects a number it already holds, or fails otherwise
PreSaveInsert(p, now) ==
    /\ req[p].op = "checkout" /\ req[p].pc = "save" /\ req[p].idx > 0
    /\ LET n == OrderNumber(now, req[p].idx - 1) IN
       \/ /\ ~NumberTaken(n)
          /\ orders' = Append(orders, Numbered(NewOrder(req[p].items), n))
          /\ req' = [req EXCEPT ![p] = [@ EXCEPT !.pc = "intent", !.idx = 0,
                                                 !.oid = Len(orders) + 1]]
       \/ /\ NumberTaken(n)
          /\ orders' = orders
          /\ req' = [req EXCEPT ![p] = Fail(p, "ServerError", "DuplicateKey")]
       \/ /\ orders' = orders
          /\ req' = [req EXCEPT ![p] = Fail(p, "ServerError", "StoreError")]
    /\ UNCHANGED <<catalog, sessCart, requests, stock0>>

\* the carts of the checkouts that are numbered
NumberCarts == {<<l>> : l \in {c \in CartLines : c.quantity = 1}}

NextNumber ==
    \E p \in Clients :
       \/ \E c \in NumberCarts : CheckoutStart(p, c, "ok")
       \/ CheckoutValidate(p, FALSE)
       \/ PreSaveCount(p)
       \/ \E now \in Times : PreSaveInsert(p, now)
       \/ CheckoutIntent(p)
       \/ CheckoutSaveRef(p)
       \/ \E ev \in EventTypes \ {"other"}, r \in EventRefs :
             /\ r = NoRef => ev = "refunded"
             /\ WebhookStart(p, ev, r, TRUE)
       \/ HandlerFind(p, FALSE)
       \/ HandlerCommit(p)
       \/ HandlerSave(p)
       \/ HandlerItem(p)
       \/ HandlerMail(p)
       \/ \E o \in 1..MaxOrders : CancelStart(p, o)
       \/ CancelSave(p)
       \/ Return(p)

SpecNumber == Init /\ [][NextNumber]_vars

\* C26: after every step any two orders have different order numbers, and
\* the step leaves the number of every order it found as it was
C26_DistinctOrderNumbers ==
    [][/\ \A a, b \in 1..Len(orders') :
             a # b => orders'[a].num # orders'[b].num
       /\ \A o \in 1..Len(orders) : orders'[o].num = orders[o].num]_vars

\* two checkouts read the same count, one order was created with it, and
\* the other checkout built the same number at the same clock value and was
\* rejected by the store
C26_Witness ==
    \E p \in Clients :
       /\ req[p].op = "checkout" /\ req[p].err = "DuplicateKey"
       /\ Len(orders) >= 1

PaidOrder ==
    SuccessEdit([NewOrder(<<[product |-> 1, quantity |-> 1,
                             price |-> CurrentPrice(1)]>>) EXCEPT !.ref = 1])

InitPaid ==
    /\ inStock = [i \in Items |-> InitStock(i)]
    /\ soldCount = [i \in Items |-> IF i = 1 THEN 1 ELSE 0]
    /\ isDeleted = [i \in Items |-> FALSE]
    /\ isPublished = [i \in Items |-> TRUE]
    /\ orders = <<PaidOrder>>
    /\ req = [p \in Procs |-> Idle]
    /\ sessCart = [p \in Procs |-> <<>>]
    /\ requests = 0
    /\ stock0 = inStock

\* the notifications and cancellations that follow, and the soft delete
NextPaid ==
    \/ \E p \in Clients :
          \/ \E ev \in EventTypes, r \in EventRefs, sigOk \in BOOLEAN :
                /\ r = NoRef => ev = "refunded"
                /\ WebhookStart(p, ev, r, sigOk)
          \/ HandlerFind(p, FALSE)
          \/ HandlerCommit(p)
          \/ HandlerSave(p)
          \/ HandlerItem(p)
          \/ HandlerMail(p)
          \/ \E o \in 1..MaxOrders : CancelStart(p, o)
          \/ CancelSave(p)
          \/ Return(p)
    \/ \E i \in Items : DeleteProduct(i)

SpecPaid == InitPaid /\ [][NextPaid]_vars

\* the request r has completed a cancellation of order o
Cancelled(r, o) ==
    r.op = "cancel" /\ r.oid = o /\ r.pc = "done" /\ r.res = "ok"

\* C28: a cancellation request that finds the order shipped, delivered,
\* cancelled or refunded is rejected at once and changes no order and no
\* counter; the save of an accepted one sets status and shipping state to
\* cancelled and records who cancelled and why; and no cancellation writes
\* to an order or its stock once another cancellation of that order has
\* completed
C28_CancelOnce ==
    [][\A p \in Clients :
          /\ (req[p].op = "idle" /\ req'[p].op = "cancel"
                 /\ req'[p].oid # 0
                 /\ orders[req'[p].oid].status
                       \in NON_CANCELLABLE_ORDER_STATUSES)
                => /\ req'[p].pc = "done" /\ req'[p].res = "400"
                   /\ orders' = orders
                   /\ inStock' = inStock /\ soldCount' = soldCount
          /\ (req[p].op = "cancel" /\ req[p].pc = "save"
                 /\ req'[p].pc # "save" /\ req'[p].err = "none")
                => /\ orders'[req[p].oid].status = "cancelled"
                   /\ orders'[req[p].oid].ship = "cancelled"
                   /\ orders'[req[p].oid].cancelReason = "customer"
                   /\ orders'[req[p].oid].cancelledBy
          /\ (req[p].op = "cancel" /\ req[p].pc \in {"save", "items"}
                 /\ (orders' # orders \/ inStock' # inStock
                        \/ soldCount' # soldCount))
                => ~\E q \in Clients \ {p} : Cancelled(req[q], req[p].oid)
      ]_vars

\* order o still holds the stock of its lines: its payment has not failed and
\* it is neither cancelled nor refunded
HoldsStock(o) ==
    orders[o].pay # "failed" /\ orders[o].status \notin {"cancelled", "refunded"}

\* quantity of item i on the orders that still hold stock
RECURSIVE HoldingFrom(_, _)
HoldingFrom(o, i) ==
    IF o > Len(orders) THEN 0
    ELSE (IF HoldsStock(o) THEN QtyOf(orders[o].items, i) ELSE 0)
         + HoldingFrom(o + 1, i)

\* C29: when no request is in progress, the initial stock of every item is
\* its current stock plus the quantities on the orders that still hold stock
C29_StockConservation ==
    Quiet => \A i \in Items : stock0[i] = inStock[i] + HoldingFrom(1, i)

\* slot p, which loaded an order that was pending, writes its transition:
\* the commit of handlePaymentSuccess, handlePaymentFailed or
\* handlePaymentCanceled, or the save of cancelOrder
TakesEffect(p) ==
    /\ \/ req[p].op = "webhook" /\ req[p].pc = "commit"
             /\ req[p].ev \in {"succeeded", "failed", "canceled"}
       \/ req[p].op = "cancel" /\ req[p].pc = "save"
    /\ req[p].snap.pay = "pending" /\ req[p].snap.status = "pending"
    /\ req'[p].pc # req[p].pc /\ req'[p].err = "none"

\* the stored order already carries the transition of a request of another
\* kind: a failure or a user cancellation for a success, a success or a user
\* cancellation for a failure, a success or a failure for a user cancellation
OtherTookEffect(p) ==
    LET o == orders[req[p].oid]
        bySuccess == o.pay = "succeeded"
        byFailure == o.pay = "failed"
        byUser == o.cancelledBy
    IN  CASE req[p].op = "cancel" -> bySuccess \/ byFailure
          [] req[p].ev = "succeeded" -> byFailure \/ byUser
          [] OTHER -> bySuccess \/ byUser

\* C30: of a payment success, a payment failure or cancellation, and a user
\* cancellation that loaded the same pending order, at most one takes
\* effect: none of them writes its transition once another one has
C30_OneTransitionWins ==
    [][\A p \in Clients : TakesEffect(p) => ~OtherTookEffect(p)]_vars

====
